---- MODULE Spec2Model ----
(***************************************************************************)
(* Work orders and quotes of the taller-api backend.                       *)
(*                                                                         *)
(* Work orders: the WorkOrder document (models/WorkOrder.js), the order    *)
(* controller that drives it (controllers/orderController.js) and the      *)
(* e-mail service used by the post-save hook (services/emailService.js).   *)
(* One work order is followed through a sequence of HTTP requests.  A      *)
(* request is handled in one step; when its save triggers the post('save') *)
(* hook, every run of the hook body is a further step (pc = "hook"), and   *)
(* the response is delivered by Respond.                                   *)
(*                                                                         *)
(* Quotes: the Quote document with its approval tokens (models/Quote) and  *)
(* the quote controller (controllers/quoteController.js).  An approval or  *)
(* rejection request is a process that takes one step per database round   *)
(* trip, so that two requests can overlap (SpecRace); SpecQuote handles    *)
(* the requests one after the other.  SpecStatusRace lets two status       *)
(* changes of one work order overlap.                                      *)
(*                                                                         *)
(* Cache and audit log: services/cacheService.js and models/SystemLog.js   *)
(* under getQuote and updateQuote (SpecCache).                             *)
(*                                                                         *)
(* Users: the login lockout of models/User (SpecLogin) and the refresh     *)
(* token of controllers/authController.js (SpecAuth).                      *)
(***************************************************************************)
EXTENDS Integers, Sequences, FiniteSets, TLC

VARIABLES
  order,          \* the persisted WorkOrder document
  statusChanges,  \* number of saves that changed the persisted status
  dispatches,     \* outcome of every sendReadyNotification call, in order
  now,            \* server clock (Date.now)
  clientHasEmail, \* the order's client exists and has an e-mail address
  pc,             \* position of the request in flight
  req,            \* the request in flight
  res,            \* its response
  loaded,         \* the document as findById returned it to the handler
  hookRuns,       \* runs of the post-save hook body for the request in flight
  maxRetries,     \* emailService.maxRetries
  mailOutcomes,   \* outcome of the i-th transporter.sendMail call
  mailResult,     \* what sendWithRetry returned for mailOutcomes
  quotes,         \* the persisted Quote documents
  worders,        \* the work orders created from quotes, in insertion order
  proc,           \* the quote requests in flight, one per connection
  nextToken,      \* the next approval token uuidv4 will produce
  conc,           \* how many quote requests the server handles at once
  oproc,          \* overlapping status-change requests on the work order
  cache,          \* one quote seen through the cache: database, Redis, audit log
  cproc,          \* the getQuote and updateQuote requests in flight
  user,           \* the persisted User document
  login,          \* the user record a caller holds in memory, and the run of
                  \* failed attempts recorded so far
  aproc,          \* the refresh and logout requests in flight
  accepted        \* the refresh tokens presented by successful refreshes

orderVars == <<order, statusChanges, dispatches, now, clientHasEmail,
               pc, req, res, loaded, hookRuns>>
mailVars  == <<maxRetries, mailOutcomes, mailResult>>
quoteVars == <<quotes, worders, proc, nextToken, conc>>
cacheVars == <<cache, cproc>>
authVars  == <<user, login, aproc, accepted>>
extraVars == <<oproc, cacheVars, authVars>>
workVars  == <<order, statusChanges, dispatches, pc, req, res, loaded, hookRuns>>
vars      == <<order, statusChanges, dispatches, now, clientHasEmail,
               pc, req, res, loaded, hookRuns,
               maxRetries, mailOutcomes, mailResult,
               quotes, worders, proc, nextToken, conc,
               oproc, cache, cproc, user, login, aproc, accepted>>

----------------------------------------------------------------------------
(* Bounds of the model *)

MaxTime       == 2   \* the clock stops advancing here
MaxHistory    == 4   \* status changes followed per order
MaxHookRuns   == 3   \* runs of the hook body followed per request
MaxRetriesCfg == 4   \* largest configured EMAIL_MAX_RETRIES explored

(* Program constants *)

DefaultMaxRetries == 3   \* parseInt(process.env.EMAIL_MAX_RETRIES) || 3
NoDate            == 0   \* a Date field that is not set

NoMechanic == "none"
NoCost     == "unset"

Statuses == {"pendiente_asignacion", "asignada", "en_progreso", "listo", "entregado"}

ActiveMechanics   == {"m1", "m2"}
InactiveMechanics == {"m3"}
UnknownMechanic   == "m9"
MechanicIds       == ActiveMechanics \cup InactiveMechanics \cup {UnknownMechanic}

Admin    == "admin"
Actors   == {Admin, "m1"}   \* the mechanic user acts under his mechanic id
OrderId  == "o1"
OrderIds == {OrderId}       \* requests for an id no order has get 404 and are left out
Costs    == {"c1"}

Last(s) == s[Len(s)]

----------------------------------------------------------------------------
(* models/WorkOrder.js *)

\* workOrderSchema defaults for a document created with the given fields
NewOrder(status, mechanicId, finalCost, t) ==
  [ status            |-> status,
    mechanicId        |-> mechanicId,
    statusHistory     |-> << >>,
    actualDelivery    |-> NoDate,
    createdAt         |-> t,
    finalCost         |-> finalCost,
    notifications     |-> << >>,
    readyEmailSent    |-> FALSE,
    readyEmailSentAt  |-> NoDate,
    isDeleted         |-> FALSE,
    deletedAt         |-> NoDate,
    deletedBy         |-> "none" ]

\* variant: the table also lets an assigned order skip to listo
Transitions_SkipToListo(s) ==
  CASE s = "pendiente_asignacion" -> {"asignada"}
    [] s = "asignada"             -> {"en_progreso", "pendiente_asignacion", "listo"}
    [] s = "en_progreso"          -> {"listo", "asignada"}
    [] s = "listo"                -> {"entregado", "en_progreso"}
    [] OTHER                      -> {}

\* variant: a delivered order can be reopened
Transitions_Reopen(s) ==
  CASE s = "pendiente_asignacion" -> {"asignada"}
    [] s = "asignada"             -> {"en_progreso", "pendiente_asignacion"}
    [] s = "en_progreso"          -> {"listo", "asignada"}
    [] s = "listo"                -> {"entregado", "en_progreso"}
    [] s = "entregado"            -> {"listo"}
    [] OTHER                      -> {}

Transitions(s) ==
  CASE s = "pendiente_asignacion" -> {"asignada"}
    [] s = "asignada"             -> {"en_progreso", "pendiente_asignacion"}
    [] s = "en_progreso"          -> {"listo", "asignada"}
    [] s = "listo"                -> {"entregado", "en_progreso"}
    [] s = "entregado"            -> {}
    [] OTHER                      -> {}

\* variant: the mechanic guard is missing
ValidateStatusTransition_NoMechanicGuard(doc, newStatus) ==
  IF newStatus \notin Transitions(doc.status)
    THEN [valid |-> FALSE, error |-> "no_se_puede_cambiar"]
    ELSE [valid |-> TRUE, error |-> "none"]

ValidateStatusTransition(doc, newStatus) ==
  IF newStatus \notin Transitions(doc.status)
    THEN [valid |-> FALSE, error |-> "no_se_puede_cambiar"]
  ELSE IF newStatus = "en_progreso" /\ doc.mechanicId = NoMechanic
    THEN [valid |-> FALSE, error |-> "debe_asignar_mecanico"]
  ELSE [valid |-> TRUE, error |-> "none"]

\* variant: entregado does not stamp actualDelivery
ChangeStatus_NoStamp(doc, newStatus, changedBy) ==
  LET validation == ValidateStatusTransition(doc, newStatus) IN
  IF ~validation.valid
    THEN [threw |-> TRUE, error |-> validation.error, doc |-> doc]
    ELSE [threw |-> FALSE, error |-> "none",
          doc |-> [doc EXCEPT
                     !.status = newStatus,
                     !.statusHistory = Append(@, [previousStatus |-> doc.status,
                                                  newStatus      |-> newStatus,
                                                  changedBy      |-> changedBy,
                                                  changedAt      |-> now])]]

\* variant: the status is set without the history entry
ChangeStatus_NoHistory(doc, newStatus, changedBy) ==
  LET validation == ValidateStatusTransition(doc, newStatus) IN
  IF ~validation.valid
    THEN [threw |-> TRUE, error |-> validation.error, doc |-> doc]
    ELSE [threw |-> FALSE, error |-> "none",
          doc |-> [doc EXCEPT
                     !.status = newStatus,
                     !.actualDelivery = IF newStatus = "entregado" THEN now ELSE @]]

\* changeStatus up to its save: either throws and leaves doc alone, or
\* returns the document to be saved
ChangeStatus(doc, newStatus, changedBy) ==
  LET validation == ValidateStatusTransition(doc, newStatus) IN
  IF ~validation.valid
    THEN [threw |-> TRUE, error |-> validation.error, doc |-> doc]
    ELSE [threw |-> FALSE, error |-> "none",
          doc |-> [doc EXCEPT
                     !.status = newStatus,
                     !.statusHistory = Append(@, [previousStatus |-> doc.status,
                                                  newStatus      |-> newStatus,
                                                  changedBy      |-> changedBy,
                                                  changedAt      |-> now]),
                     !.actualDelivery = IF newStatus = "entregado" THEN now ELSE @]]

\* condition of the post('save') hook
ReadyHookFires(doc) == doc.status = "listo" /\ ~doc.readyEmailSent

NoRes == [ok |-> FALSE, code |-> "none"]
Ok    == [ok |-> TRUE, code |-> "OK"]
Err(code) == [ok |-> FALSE, code |-> code]

\* doc.save(): the document is persisted, then the post('save') hook runs.
\* When the hook has nothing to do the save returns, and every handler goes
\* on from a save that returned to its success response.
Save(doc) ==
  /\ order' = doc
  /\ statusChanges' = statusChanges + (IF doc.status # order.status THEN 1 ELSE 0)
  /\ pc' = IF ReadyHookFires(doc) THEN "hook" ELSE "done"
  /\ res' = IF ReadyHookFires(doc) THEN NoRes ELSE Ok

\* variant: the status is not looked at
CanDelete_AnyStatus(doc) == ~doc.isDeleted

CanDelete(doc) == doc.status = "pendiente_asignacion" /\ ~doc.isDeleted

SoftDelete(doc, deletedBy) ==
  IF ~CanDelete(doc)
    THEN [threw |-> TRUE, doc |-> doc]
    ELSE [threw |-> FALSE,
          doc |-> [doc EXCEPT !.isDeleted = TRUE, !.deletedAt = now, !.deletedBy = deletedBy]]

----------------------------------------------------------------------------
(* services/emailService.js *)

MailOutcomes == [0..MaxRetriesCfg -> BOOLEAN]   \* TRUE: sendMail resolved

\* variant: the retry test is attempt < maxRetries
RECURSIVE SendWithRetry_OneMore(_, _, _)
SendWithRetry_OneMore(outcomes, attempt, retries) ==
  IF outcomes[attempt]
    THEN [success |-> TRUE, attempts |-> attempt + 1]
  ELSE IF attempt < retries
    THEN SendWithRetry_OneMore(outcomes, attempt + 1, retries)
  ELSE [success |-> FALSE, attempts |-> attempt + 1]

RECURSIVE SendWithRetry(_, _, _)
SendWithRetry(outcomes, attempt, retries) ==
  IF outcomes[attempt]
    THEN [success |-> TRUE, attempts |-> attempt + 1]
  ELSE IF attempt < retries - 1
    THEN SendWithRetry(outcomes, attempt + 1, retries)
  ELSE [success |-> FALSE, attempts |-> attempt + 1]

SendReadyNotification(outcomes) ==
  IF ~clientHasEmail
    THEN [threw |-> TRUE, success |-> FALSE]
    ELSE [threw |-> FALSE, success |-> SendWithRetry(outcomes, 0, maxRetries).success]

----------------------------------------------------------------------------
(* Requests *)

NoReq == [op |-> "none", id |-> "none", actor |-> "none", target |-> "none",
          mechanicId |-> "none", cost |-> "none"]

Reject(code) ==
  /\ res' = Err(code)
  /\ pc' = "done"
  /\ UNCHANGED <<order, statusChanges>>

\* the mechanic-role check of updateOrder and updateOrderStatus
MechanicForbidden(actor, doc) == actor # Admin /\ doc.mechanicId # actor

Begin(r) ==
  /\ pc = "idle"
  /\ req' = r
  /\ loaded' = order
  /\ hookRuns' = 0
  /\ UNCHANGED <<dispatches, now, clientHasEmail, mailVars, quoteVars, extraVars>>

----------------------------------------------------------------------------
(* controllers/orderController.js *)

\* PUT /api/orders/:id
UpdateOrder(id, actor, cost) ==
  /\ Begin([NoReq EXCEPT !.op = "update", !.id = id, !.actor = actor, !.cost = cost])
  /\ IF id # OrderId THEN Reject("ORDER_NOT_FOUND")
     ELSE IF MechanicForbidden(actor, order) THEN Reject("FORBIDDEN")
     ELSE Save([order EXCEPT !.finalCost = cost])

\* PUT /api/orders/:id/status
UpdateOrderStatus(id, actor, target) ==
  /\ Begin([NoReq EXCEPT !.op = "status", !.id = id, !.actor = actor, !.target = target])
  /\ IF id # OrderId THEN Reject("ORDER_NOT_FOUND")
     ELSE IF MechanicForbidden(actor, order) THEN Reject("FORBIDDEN")
     ELSE LET r == ChangeStatus(order, target, actor) IN
          IF r.threw THEN Reject("INVALID_STATUS_TRANSITION")
          ELSE /\ Len(order.statusHistory) < MaxHistory
               /\ Save(r.doc)

\* PUT /api/orders/:id/assign (admin only)
AssignMechanic(id, actor, mechanicId) ==
  /\ Begin([NoReq EXCEPT !.op = "assign", !.id = id, !.actor = actor,
                         !.mechanicId = mechanicId])
  /\ IF actor # Admin THEN Reject("FORBIDDEN")
     ELSE IF id # OrderId THEN Reject("ORDER_NOT_FOUND")
     ELSE IF mechanicId = UnknownMechanic THEN Reject("MECHANIC_NOT_FOUND")
     ELSE IF mechanicId \in InactiveMechanics THEN Reject("MECHANIC_INACTIVE")
     ELSE LET doc == [order EXCEPT !.mechanicId = mechanicId] IN
          IF doc.status = "pendiente_asignacion"
            THEN LET r == ChangeStatus(doc, "asignada", actor) IN
                 IF r.threw THEN Reject("INTERNAL_SERVER_ERROR")
                 ELSE /\ Len(order.statusHistory) < MaxHistory
                      /\ Save(r.doc)
            ELSE Save(doc)

\* DELETE /api/orders/:id (admin only)
DeleteOrder(id, actor) ==
  /\ Begin([NoReq EXCEPT !.op = "delete", !.id = id, !.actor = actor])
  /\ IF actor # Admin THEN Reject("FORBIDDEN")
     ELSE IF id # OrderId THEN Reject("ORDER_NOT_FOUND")
     ELSE IF order.isDeleted THEN Reject("ORDER_ALREADY_DELETED")
     ELSE IF ~CanDelete(order) THEN Reject("CANNOT_DELETE_ORDER")
     ELSE LET r == SoftDelete(order, actor) IN
          IF r.threw THEN Reject("INTERNAL_SERVER_ERROR")
          ELSE Save(r.doc)

----------------------------------------------------------------------------
(* models/WorkOrder.js: one run of the body of the post('save') hook, with *)
(* the doc.save() it ends with; that save runs the hook again.             *)

Enviado == [type |-> "listo", status |-> "enviado", attempts |-> 1]
Fallido == [type |-> "listo", status |-> "fallido", attempts |-> 1]

PostSaveHook ==
  /\ pc = "hook"
  /\ hookRuns < MaxHookRuns
  /\ \E outcomes \in MailOutcomes :
       LET r   == SendReadyNotification(outcomes)
           doc == IF r.threw
                    THEN [order EXCEPT !.notifications = Append(@, Fallido)]
                    ELSE [order EXCEPT !.readyEmailSent = TRUE,
                                       !.readyEmailSentAt = now,
                                       !.notifications = Append(@, Enviado)]
       IN /\ Save(doc)
          /\ dispatches' = Append(dispatches,
                                  IF r.threw THEN "threw"
                                  ELSE IF r.success THEN "sent" ELSE "failed")
  /\ hookRuns' = hookRuns + 1
  /\ UNCHANGED <<now, clientHasEmail, req, loaded, mailVars, quoteVars, extraVars>>

\* the controller sends the response it has built
Respond ==
  /\ pc = "done"
  /\ pc' = "idle"
  /\ req' = NoReq
  /\ res' = NoRes
  /\ loaded' = order
  /\ hookRuns' = 0
  /\ UNCHANGED <<order, statusChanges, dispatches, now, clientHasEmail, mailVars,
                 quoteVars, extraVars>>

Tick ==
  /\ pc = "idle"
  /\ now < MaxTime
  /\ now' = now + 1
  /\ UNCHANGED <<order, statusChanges, dispatches, clientHasEmail,
                 pc, req, res, loaded, hookRuns, mailVars, quoteVars, extraVars>>

----------------------------------------------------------------------------
(* sendWithRetry on its own *)

NoMailResult == [success |-> FALSE, attempts |-> 0]

MailSend ==
  /\ mailResult = NoMailResult
  /\ mailResult' = SendWithRetry(mailOutcomes, 0, maxRetries)
  /\ UNCHANGED <<orderVars, maxRetries, mailOutcomes, quoteVars, extraVars>>

----------------------------------------------------------------------------
(* models/Quote: the quote document and its approval tokens *)

MaxEdits      == 2   \* edits of the quote followed
MaxSends      == 2      \* send-email requests that reach token generation
QuoteMaxTime  == 3      \* the clock of the quote specifications stops here

ValidityTicks == 1      \* validUntil defaults to seven days after creation
NoOrder       == 0      \* workOrderId not set
UnknownToken  == 0      \* a token uuidv4 never produced
QuoteIds      == {1, 2}
Procs         == {1, 2}
QuoteCosts    == {100, 200}
ClientIp      == "ip1"
ClientAgent   == "ua1"
QuoteStatuses == {"pending", "approved", "rejected"}

TokenInvalid     == "Token invalido"
TokenUsed        == "Token ya fue utilizado"
TokenExpired     == "Token expirado"
AlreadyProcessed == "Presupuesto ya fue procesado"
TokenErrors      == {TokenInvalid, TokenUsed, TokenExpired, AlreadyProcessed}

Vehicle(q) == IF q = 1 THEN "v1" ELSE "v2"

\* a quote as createQuote stores it at time t
NewQuote(q, cost, t) ==
  [status         |-> "pending",
   approvalTokens |-> << >>,
   validUntil     |-> t + ValidityTicks,
   vehicle        |-> Vehicle(q),
   estimatedCost  |-> cost,
   emailSent      |-> FALSE,
   emailSentAt    |-> NoDate,
   emailAttempts  |-> 0,
   workOrderId    |-> NoOrder,
   isDeleted      |-> FALSE]

NewToken(token, type) ==
  [token |-> token, type |-> type, used |-> FALSE, usedAt |-> NoDate,
   ipAddress |-> "none", userAgent |-> "none"]

\* variant: the new pair is pushed after the tokens already there
GenerateTokens_Append(doc, n) ==
  [doc EXCEPT !.approvalTokens =
     @ \o << NewToken(n, "approve"), NewToken(n + 1, "reject") >>]

\* generateTokens: n and n + 1 are the two values uuidv4 returns
GenerateTokens(doc, n) ==
  [doc EXCEPT !.approvalTokens =
     << NewToken(n, "approve"), NewToken(n + 1, "reject") >>]

\* approvalTokens.find(t => t.token === token): index of the first match, 0 if none
FindToken(doc, token) ==
  LET found == {i \in DOMAIN doc.approvalTokens : doc.approvalTokens[i].token = token}
  IN  IF found = {} THEN 0 ELSE CHOOSE i \in found : \A j \in found : i <= j

\* variant: the status is looked at before the used flag and the deadline
ValidateToken_StatusFirst(doc, token, t) ==
  LET i == FindToken(doc, token)
  IN  IF i = 0 THEN [valid |-> FALSE, error |-> TokenInvalid, type |-> "none"]
      ELSE IF doc.status # "pending"
        THEN [valid |-> FALSE, error |-> AlreadyProcessed, type |-> "none"]
      ELSE IF doc.approvalTokens[i].used
        THEN [valid |-> FALSE, error |-> TokenUsed, type |-> "none"]
      ELSE IF doc.validUntil < t
        THEN [valid |-> FALSE, error |-> TokenExpired, type |-> "none"]
      ELSE [valid |-> TRUE, error |-> "none", type |-> doc.approvalTokens[i].type]

ValidateToken(doc, token, t) ==
  LET i == FindToken(doc, token)
  IN  IF i = 0 THEN [valid |-> FALSE, error |-> TokenInvalid, type |-> "none"]
      ELSE IF doc.approvalTokens[i].used
        THEN [valid |-> FALSE, error |-> TokenUsed, type |-> "none"]
      ELSE IF doc.validUntil < t
        THEN [valid |-> FALSE, error |-> TokenExpired, type |-> "none"]
      ELSE IF doc.status # "pending"
        THEN [valid |-> FALSE, error |-> AlreadyProcessed, type |-> "none"]
      ELSE [valid |-> TRUE, error |-> "none", type |-> doc.approvalTokens[i].type]

\* variant: only the presented token is marked
UseToken_OnlyPresented(doc, token, ipAddress, userAgent, t) ==
  LET i    == FindToken(doc, token)
      toks == doc.approvalTokens
  IN  IF i = 0 THEN doc
      ELSE [doc EXCEPT !.approvalTokens =
              [j \in DOMAIN toks |->
                 IF j = i
                   THEN [toks[j] EXCEPT !.used = TRUE, !.usedAt = t,
                                        !.ipAddress = ipAddress, !.userAgent = userAgent]
                   ELSE toks[j]]]

\* useToken, the in-memory part: the document before its save
UseToken(doc, token, ipAddress, userAgent, t) ==
  LET i    == FindToken(doc, token)
      toks == doc.approvalTokens
  IN  IF i = 0 THEN doc
      ELSE [doc EXCEPT !.approvalTokens =
              [j \in DOMAIN toks |->
                 IF j = i
                   THEN [toks[j] EXCEPT !.used = TRUE, !.usedAt = t,
                                        !.ipAddress = ipAddress, !.userAgent = userAgent]
                   ELSE [toks[j] EXCEPT !.used = TRUE, !.usedAt = t]]]

\* the save inside useToken: mongoose writes the paths useToken assigned,
\* $set approvalTokens.<j>.<field>, onto the stored document
SaveTokenPaths(stored, doc, token) ==
  LET old  == stored.approvalTokens
      toks == doc.approvalTokens
  IN  [stored EXCEPT !.approvalTokens =
         [j \in DOMAIN old |->
            IF j \notin DOMAIN toks THEN old[j]
            ELSE IF toks[j].token = token
              THEN [old[j] EXCEPT !.used = toks[j].used, !.usedAt = toks[j].usedAt,
                                  !.ipAddress = toks[j].ipAddress,
                                  !.userAgent = toks[j].userAgent]
              ELSE [old[j] EXCEPT !.used = toks[j].used, !.usedAt = toks[j].usedAt]]]

\* variant: the status is not looked at
CanEdit_AnyStatus(doc) == ~doc.isDeleted

CanEdit(doc) == doc.status = "pending" /\ ~doc.isDeleted

\* variant: the estimated cost is not carried over
OrderFromQuote_NoCost(q, doc, number) ==
  [quoteId         |-> q,
   orderNumber     |-> number,
   vehicleSnapshot |-> doc.vehicle,
   estimatedCost   |-> 0,
   status          |-> "pendiente_asignacion",
   mechanicId      |-> NoMechanic]

\* the document WorkOrder.create is given by the approval handlers, with the
\* orderNumber its pre('save') hook computed
OrderFromQuote(q, doc, number) ==
  [quoteId         |-> q,
   orderNumber     |-> number,
   vehicleSnapshot |-> doc.vehicle,
   estimatedCost   |-> doc.estimatedCost,
   status          |-> "pendiente_asignacion",
   mechanicId      |-> NoMechanic]

\* variant: only orderNumber is unique
DuplicateKey_NumberOnly(o) ==
  \E i \in DOMAIN worders : worders[i].orderNumber = o.orderNumber

\* the unique indexes of WorkOrder: quoteId and orderNumber
DuplicateKey(o) ==
  \E i \in DOMAIN worders :
    worders[i].quoteId = o.quoteId \/ worders[i].orderNumber = o.orderNumber

----------------------------------------------------------------------------
(* controllers/quoteController.js: a request is a process that takes one   *)
(* step per database round trip (await)                                    *)

NoDoc        == [status |-> "none"]
NoValidation == [valid |-> FALSE, error |-> "none", type |-> "none"]
IdleProc == [pc |-> "idle", op |-> "none", q |-> 0, token |-> UnknownToken,
             doc |-> NoDoc, validation |-> NoValidation, res |-> NoRes, number |-> 0]

CanStart(p) == p <= conc /\ proc[p].pc = "idle"

QuoteRest == UNCHANGED <<workVars, mailVars, now, clientHasEmail, conc, extraVars>>

TargetStatus(op) ==
  IF op \in {"approveQuote", "approveQuoteManual"} THEN "approved" ELSE "rejected"

\* variant: the handler goes on although the token did not validate
Redeem_NoEarlyReturn(p, op, q, token) ==
  LET doc        == quotes[q]
      validation == ValidateToken(doc, token, now)
  IN  /\ CanStart(p)
      /\ proc' = [proc EXCEPT ![p] =
           [pc     |-> "burn",
            op     |-> op,
            q      |-> q,
            token  |-> token,
            doc    |-> doc,
            validation |-> validation,
            res    |-> NoRes,
            number |-> 0]]
      /\ UNCHANGED <<quotes, worders, nextToken>>
      /\ QuoteRest

\* approveQuote and rejectQuote up to the validation: findById, validateToken
\* and the 400 answer when the token does not validate
Redeem(p, op, q, token) ==
  LET doc        == quotes[q]
      validation == ValidateToken(doc, token, now)
  IN  /\ CanStart(p)
      /\ proc' = [proc EXCEPT ![p] =
           [pc     |-> IF validation.valid THEN "burn" ELSE "done",
            op     |-> op,
            q      |-> q,
            token  |-> token,
            doc    |-> doc,
            validation |-> validation,
            res    |-> IF validation.valid THEN NoRes ELSE Err(validation.error),
            number |-> 0]]
      /\ UNCHANGED <<quotes, worders, nextToken>>
      /\ QuoteRest

ApproveQuote(p, q, token) == Redeem(p, "approveQuote", q, token)

RejectQuote(p, q, token) == Redeem(p, "rejectQuote", q, token)

\* await quote.useToken(...): tokens marked in memory and saved; the handler
\* then assigns quote.status and goes to its own save
BurnToken(p) ==
  LET r   == proc[p]
      doc == UseToken(r.doc, r.token, ClientIp, ClientAgent, now)
  IN  /\ r.pc = "burn"
      /\ quotes' = [quotes EXCEPT ![r.q] = SaveTokenPaths(@, doc, r.token)]
      /\ proc' = [proc EXCEPT ![p].doc = [doc EXCEPT !.status = TargetStatus(r.op)],
                              ![p].pc = "status"]
      /\ UNCHANGED <<worders, nextToken>>
      /\ QuoteRest

\* approveQuoteManual and rejectQuoteManual up to their save
Manual(p, op, q) ==
  LET doc == quotes[q]
  IN  /\ CanStart(p)
      /\ proc' = [proc EXCEPT ![p] =
           IF doc.status # "pending"
             THEN [pc |-> "done", op |-> op, q |-> q, token |-> UnknownToken,
                   doc |-> doc, validation |-> NoValidation,
                   res |-> Err("QUOTE_ALREADY_PROCESSED"), number |-> 0]
             ELSE [pc |-> "status", op |-> op, q |-> q, token |-> UnknownToken,
                   doc |-> [doc EXCEPT !.status = TargetStatus(op)],
                   validation |-> NoValidation, res |-> NoRes, number |-> 0]]
      /\ UNCHANGED <<quotes, worders, nextToken>>
      /\ QuoteRest

ApproveQuoteManual(p, q) == Manual(p, "approveQuoteManual", q)

RejectQuoteManual(p, q) == Manual(p, "rejectQuoteManual", q)

\* await quote.save() after quote.status was assigned: status is the one
\* modified path.  The rejecting handlers answer after it.
SaveStatus(p) ==
  LET r == proc[p]
  IN  /\ r.pc = "status"
      /\ quotes' = [quotes EXCEPT ![r.q].status = r.doc.status]
      /\ proc' = [proc EXCEPT
           ![p].pc  = IF r.doc.status = "approved" THEN "count" ELSE "done",
           ![p].res = IF r.doc.status = "approved" THEN NoRes ELSE Ok]
      /\ UNCHANGED <<worders, nextToken>>
      /\ QuoteRest

\* WorkOrder.create, pre('save'): orderNumber from countDocuments() + 1
CountOrders(p) ==
  /\ proc[p].pc = "count"
  /\ proc' = [proc EXCEPT ![p].number = Len(worders) + 1, ![p].pc = "insert"]
  /\ UNCHANGED <<quotes, worders, nextToken>>
  /\ QuoteRest

\* WorkOrder.create, the insert: a duplicate key is thrown to the error
\* handler; otherwise the handler assigns quote.workOrderId
InsertOrder(p) ==
  LET r == proc[p]
      o == OrderFromQuote(r.q, r.doc, r.number)
  IN  /\ r.pc = "insert"
      /\ IF DuplicateKey(o)
           THEN /\ proc' = [proc EXCEPT ![p].pc = "done",
                                        ![p].res = Err("DUPLICATE_ERROR")]
                /\ UNCHANGED worders
           ELSE /\ worders' = Append(worders, o)
                /\ proc' = [proc EXCEPT ![p].doc.workOrderId = Len(worders) + 1,
                                        ![p].pc = "link"]
      /\ UNCHANGED <<quotes, nextToken>>
      /\ QuoteRest

\* quote.workOrderId = order._id; await quote.save(); success answer
LinkOrder(p) ==
  LET r == proc[p]
  IN  /\ r.pc = "link"
      /\ quotes' = [quotes EXCEPT ![r.q].workOrderId = r.doc.workOrderId]
      /\ proc' = [proc EXCEPT ![p].pc = "done", ![p].res = Ok]
      /\ UNCHANGED <<worders, nextToken>>
      /\ QuoteRest

\* updateQuote, for the estimated cost
UpdateQuote(p, q, cost) ==
  LET doc == quotes[q]
  IN  /\ CanStart(p)
      /\ quotes' = IF CanEdit(doc) THEN [quotes EXCEPT ![q].estimatedCost = cost]
                                   ELSE quotes
      /\ proc' = [proc EXCEPT ![p] =
           [pc |-> "done", op |-> "updateQuote", q |-> q, token |-> UnknownToken,
            doc |-> doc, validation |-> NoValidation,
            res |-> IF CanEdit(doc) THEN Ok ELSE Err("QUOTE_CANNOT_EDIT"),
            number |-> 0]]
      /\ UNCHANGED <<worders, nextToken>>
      /\ QuoteRest

\* sendQuoteEmail: the checks, generateTokens and its save, the dispatch and
\* the save of its outcome
SendQuoteEmail(p, q, outcomes) ==
  LET doc    == quotes[q]
      fresh  == GenerateTokens(doc, nextToken)
      result == SendWithRetry(outcomes, 0, maxRetries)
      code   == IF doc.status # "pending" THEN "QUOTE_ALREADY_PROCESSED"
                ELSE IF ~clientHasEmail THEN "CLIENT_NO_EMAIL"
                ELSE IF ~result.success THEN "EMAIL_SEND_FAILED"
                ELSE "OK"
      sent   == [fresh EXCEPT !.emailSent = TRUE, !.emailSentAt = now,
                              !.emailAttempts = @ + 1]
      failed == [fresh EXCEPT !.emailAttempts = @ + 1]
  IN  /\ CanStart(p)
      /\ nextToken + 1 <= 2 * MaxSends
      /\ quotes' = IF code = "OK" THEN [quotes EXCEPT ![q] = sent]
                   ELSE IF code = "EMAIL_SEND_FAILED" THEN [quotes EXCEPT ![q] = failed]
                   ELSE quotes
      /\ nextToken' = IF code \in {"OK", "EMAIL_SEND_FAILED"} THEN nextToken + 2
                                                               ELSE nextToken
      /\ proc' = [proc EXCEPT ![p] =
           [pc |-> "done", op |-> "sendQuoteEmail", q |-> q, token |-> UnknownToken,
            doc |-> doc, validation |-> NoValidation,
            res |-> IF code = "OK" THEN Ok ELSE Err(code), number |-> 0]]
      /\ UNCHANGED worders
      /\ QuoteRest

QuoteRespond(p) ==
  /\ proc[p].pc = "done"
  /\ proc' = [proc EXCEPT ![p] = IdleProc]
  /\ UNCHANGED <<quotes, worders, nextToken>>
  /\ QuoteRest

\* the clock advances between requests
QuoteTick ==
  /\ \A p \in Procs : proc[p].pc = "idle"
  /\ now < QuoteMaxTime
  /\ now' = now + 1
  /\ UNCHANGED <<workVars, mailVars, clientHasEmail, quoteVars, extraVars>>

----------------------------------------------------------------------------
(* controllers/orderController.js, updateOrderStatus as a process: the     *)
(* handler up to the save inside changeStatus, the save, the post('save')  *)
(* hook, the answer                                                        *)

OProcs    == {1, 2}
IdleOProc == [pc |-> "idle", target |-> "none", doc |-> NoDoc, res |-> NoRes]

RaceRest == UNCHANGED <<pc, req, res, loaded, hookRuns, now, clientHasEmail,
                        mailVars, quoteVars, cacheVars, authVars>>

\* findById, then changeStatus up to its await this.save(): the transition
\* is validated and applied on the handler's copy of the document
StatusLoad(p, target) ==
  LET r == ChangeStatus(order, target, Admin)
  IN  /\ oproc[p].pc = "idle"
      /\ Len(order.statusHistory) + Cardinality({o \in OProcs : oproc[o].pc = "save"})
           < MaxHistory
      /\ oproc' = [oproc EXCEPT ![p] =
           IF r.threw
             THEN [pc |-> "done", target |-> target, doc |-> order,
                   res |-> Err("INVALID_STATUS_TRANSITION")]
             ELSE [pc |-> "save", target |-> target, doc |-> r.doc, res |-> NoRes]]
      /\ UNCHANGED <<order, statusChanges, dispatches>>
      /\ RaceRest

\* await this.save() of changeStatus: the modified paths are written onto
\* the stored document ($set status, $push statusHistory, $set
\* actualDelivery), whatever it holds by now
StatusSave(p) ==
  LET doc   == oproc[p].doc
      saved == [order EXCEPT !.status = doc.status,
                             !.statusHistory = Append(@, Last(doc.statusHistory)),
                             !.actualDelivery = IF doc.status = "entregado"
                                                  THEN doc.actualDelivery ELSE @]
  IN  /\ oproc[p].pc = "save"
      /\ order' = saved
      /\ statusChanges' = statusChanges + (IF order'.status # order.status THEN 1 ELSE 0)
      /\ oproc' = [oproc EXCEPT
           ![p].pc  = IF ReadyHookFires(doc) THEN "hook" ELSE "done",
           ![p].res = IF ReadyHookFires(doc) THEN NoRes ELSE Ok]
      /\ UNCHANGED dispatches
      /\ RaceRest

\* the post('save') hook on the handler's copy, for a client with an e-mail
\* address: the notification is dispatched, then readyEmailSent,
\* readyEmailSentAt and the notification entry are saved
StatusHook(p) ==
  /\ oproc[p].pc = "hook"
  /\ clientHasEmail
  /\ \E outcomes \in MailOutcomes :
       LET r == SendReadyNotification(outcomes)
       IN  dispatches' = Append(dispatches, IF r.success THEN "sent" ELSE "failed")
  /\ order' = [order EXCEPT !.readyEmailSent = TRUE, !.readyEmailSentAt = now,
                            !.notifications = Append(@, Enviado)]
  /\ oproc' = [oproc EXCEPT ![p].pc = "done", ![p].res = Ok,
                            ![p].doc.readyEmailSent = TRUE]
  /\ UNCHANGED statusChanges
  /\ RaceRest

StatusRespond(p) ==
  /\ oproc[p].pc = "done"
  /\ oproc' = [oproc EXCEPT ![p] = IdleOProc]
  /\ UNCHANGED <<order, statusChanges, dispatches>>
  /\ RaceRest

----------------------------------------------------------------------------
(* services/cacheService.js and models/SystemLog.js with the quote         *)
(* handlers that call them: getQuote and updateQuote as processes, one     *)
(* step per await.  The contents of the quote are followed as the number   *)
(* of the edit that produced them.                                         *)

CacheProcs  == {1, 2}
NoEntry     == -1    \* client.get returned null: no such key
NoClient    == "null"
RedisStates == {"absent", "closed", "open"}
QuoteKey      == "cache:quote:1"
QuotesPattern == "cache:quotes:*"
QuotePattern  == "cache:quote:*"

IdleCProc == [pc |-> "idle", op |-> "none", data |-> NoEntry, since |-> 0,
              cached |-> FALSE, logFailed |-> FALSE, cacheFailed |-> FALSE,
              res |-> NoRes]

\* cacheService.getClient: no client object, or one that is not open
GetClient(redis) ==
  IF redis = "absent" \/ redis # "open" THEN NoClient ELSE "client"

\* does a KEYS pattern match the key of the quote
Matches(pattern, key) == pattern = QuotePattern /\ key = QuoteKey

\* cacheService.get(key); fails: the Redis command rejects
CacheGet(redis, fails, store, key) ==
  IF GetClient(redis) = NoClient THEN [threw |-> FALSE, value |-> NoEntry]
  ELSE IF fails THEN [threw |-> FALSE, value |-> NoEntry]
  ELSE [threw |-> FALSE, value |-> store]

\* cacheService.set(key, data, ttl)
CacheSet(redis, fails, store, key, data) ==
  IF GetClient(redis) = NoClient THEN [threw |-> FALSE, value |-> FALSE, store |-> store]
  ELSE IF fails THEN [threw |-> FALSE, value |-> FALSE, store |-> store]
  ELSE [threw |-> FALSE, value |-> TRUE, store |-> data]

\* cacheService.delete(key)
CacheDelete(redis, fails, store, key) ==
  IF GetClient(redis) = NoClient THEN [threw |-> FALSE, value |-> FALSE, store |-> store]
  ELSE IF fails THEN [threw |-> FALSE, value |-> FALSE, store |-> store]
  ELSE [threw |-> FALSE, value |-> TRUE, store |-> NoEntry]

\* cacheService.invalidate(pattern)
Invalidate(redis, fails, store, pattern) ==
  IF GetClient(redis) = NoClient THEN [threw |-> FALSE, value |-> FALSE, store |-> store]
  ELSE IF fails THEN [threw |-> FALSE, value |-> FALSE, store |-> store]
  ELSE [threw |-> FALSE, value |-> TRUE,
        store |-> IF Matches(pattern, QuoteKey) THEN NoEntry ELSE store]

\* cacheService.invalidateQuotes: the list pattern, then the quote pattern
InvalidateQuotes(redis, fails1, fails2, store) ==
  LET a == Invalidate(redis, fails1, store, QuotesPattern)
      b == Invalidate(redis, fails2, a.store, QuotePattern)
  IN [threw |-> a.threw \/ b.threw, value |-> a.value /\ b.value, store |-> b.store]

\* the catch of createLog left out
CreateLog_Rethrow(writeFails, logs) ==
  IF writeFails THEN [threw |-> TRUE, value |-> "null", logs |-> logs]
  ELSE [threw |-> FALSE, value |-> "log", logs |-> logs + 1]

\* SystemLog.createLog; writeFails: this.create rejects
CreateLog(writeFails, logs) ==
  IF writeFails THEN [threw |-> FALSE, value |-> "null", logs |-> logs]
  ELSE [threw |-> FALSE, value |-> "log", logs |-> logs + 1]

CacheRest == UNCHANGED <<workVars, mailVars, now, clientHasEmail, quoteVars, oproc,
                         authVars>>

Thrown(p) == [cproc[p] EXCEPT !.pc = "done", !.res = Err("INTERNAL_SERVER_ERROR")]

\* getQuote: cacheService.get, answered from the cache on a hit
GetQuote(p, fails) ==
  LET r == CacheGet(cache.redis, fails, cache.store, QuoteKey)
      me == [IdleCProc EXCEPT !.op = "get", !.since = cache.acked]
  IN /\ cproc[p].pc = "idle"
     /\ cproc' = [cproc EXCEPT ![p] =
          IF r.threw THEN [me EXCEPT !.pc = "done", !.res = Err("INTERNAL_SERVER_ERROR")]
          ELSE IF r.value # NoEntry
            THEN [me EXCEPT !.pc = "done", !.data = r.value, !.cached = TRUE, !.res = Ok]
            ELSE [me EXCEPT !.pc = "find"]]
     /\ UNCHANGED cache
     /\ CacheRest

\* getQuote: Quote.findById
GetQuoteFind(p) ==
  /\ cproc[p].pc = "find"
  /\ cproc' = [cproc EXCEPT ![p].pc = "set", ![p].data = cache.db]
  /\ UNCHANGED cache
  /\ CacheRest

\* getQuote: cacheService.set of what findById returned, then the answer
GetQuoteSet(p, fails) ==
  LET r == CacheSet(cache.redis, fails, cache.store, QuoteKey, cproc[p].data)
  IN /\ cproc[p].pc = "set"
     /\ cache' = [cache EXCEPT !.store = r.store]
     /\ cproc' = [cproc EXCEPT ![p] =
          IF r.threw THEN Thrown(p)
          ELSE [cproc[p] EXCEPT !.pc = "done", !.res = Ok]]
     /\ CacheRest

\* updateQuote up to quote.save() on a pending quote
EditQuoteSave(p) ==
  /\ cproc[p].pc = "idle"
  /\ cache.db < MaxEdits
  /\ cache' = [cache EXCEPT !.db = cache.db + 1]
  /\ cproc' = [cproc EXCEPT ![p] =
       [IdleCProc EXCEPT !.pc = "log", !.op = "edit", !.data = cache.db + 1,
                         !.since = cache.acked]]
  /\ CacheRest

\* updateQuote: SystemLog.createLog
EditQuoteLog(p, writeFails) ==
  LET r == CreateLog(writeFails, cache.logs)
  IN /\ cproc[p].pc = "log"
     /\ cache' = [cache EXCEPT !.logs = r.logs]
     /\ cproc' = [cproc EXCEPT ![p] =
          IF r.threw THEN Thrown(p)
          ELSE [cproc[p] EXCEPT !.pc = "invalidate", !.logFailed = writeFails]]
     /\ CacheRest

\* updateQuote: cacheService.invalidateQuotes
EditQuoteInvalidate(p, fails1, fails2) ==
  LET r == InvalidateQuotes(cache.redis, fails1, fails2, cache.store)
  IN /\ cproc[p].pc = "invalidate"
     /\ cache' = [cache EXCEPT !.store = r.store]
     /\ cproc' = [cproc EXCEPT ![p] =
          IF r.threw THEN Thrown(p)
          ELSE [cproc[p] EXCEPT !.pc = "delete", !.cacheFailed = ~r.value]]
     /\ CacheRest

\* updateQuote: cacheService.delete of the quote's key, then the answer
EditQuoteDelete(p, fails) ==
  LET r == CacheDelete(cache.redis, fails, cache.store, QuoteKey)
  IN /\ cproc[p].pc = "delete"
     /\ cache' = [cache EXCEPT !.store = r.store]
     /\ cproc' = [cproc EXCEPT ![p] =
          IF r.threw THEN Thrown(p)
          ELSE [cproc[p] EXCEPT !.pc = "done", !.res = Ok,
                                !.cacheFailed = cproc[p].cacheFailed \/ ~r.value]]
     /\ CacheRest

\* the answer reaches the caller; cache.acked is the newest edit whose
\* answer has been delivered
CacheRespond(p) ==
  /\ cproc[p].pc = "done"
  /\ cache' = [cache EXCEPT !.acked =
       IF cproc[p].op = "edit" /\ cproc[p].res.ok /\ cproc[p].data > cache.acked
         THEN cproc[p].data ELSE cache.acked]
  /\ cproc' = [cproc EXCEPT ![p] = IdleCProc]
  /\ CacheRest

\* the connection to Redis is lost or re-established (client.isOpen)
RedisFlip ==
  /\ cache.redis # "absent"
  /\ cache' = [cache EXCEPT !.redis = IF cache.redis = "open" THEN "closed" ELSE "open"]
  /\ UNCHANGED cproc
  /\ CacheRest

\* the 180 s of the entry run out
CacheExpire ==
  /\ cache.store # NoEntry
  /\ cache' = [cache EXCEPT !.store = NoEntry]
  /\ UNCHANGED cproc
  /\ CacheRest

----------------------------------------------------------------------------
(* models/User and controllers/authController.js: failed logins *)

MaxLoginCalls    == 6   \* failed attempts followed per user
AuthMaxTime      == 4   \* the clock of the login and token runs stops here
MaxLoginAttempts == 5
LockTicks        == 2   \* 15 minutes
NoToken          == 0   \* null
AuthProcs        == {1, 2}

NewUser == [loginAttempts |-> 0, lockUntil |-> NoDate,
            refreshToken |-> NoToken, tokenExpiration |-> NoDate]

IdleAProc == [pc |-> "idle", op |-> "none", token |-> NoToken, doc |-> NewUser,
              res |-> NoRes]

\* user.isLocked() at time t
IsLocked(this, t) == this.lockUntil # NoDate /\ this.lockUntil > t

\* this.incLoginAttempts() at time t: the conditions are evaluated on the
\* record in memory, the updateOne is applied to the stored document and
\* leaves the record in memory as it was
IncLoginAttempts(this, stored, t) ==
  IF this.lockUntil # NoDate /\ this.lockUntil < t
    THEN [stored EXCEPT !.loginAttempts = 1, !.lockUntil = NoDate]
    ELSE LET inc == [stored EXCEPT !.loginAttempts = @ + 1]
         IN IF this.loginAttempts + 1 >= MaxLoginAttempts /\ ~IsLocked(this, t)
              THEN [inc EXCEPT !.lockUntil = t + LockTicks]
              ELSE inc

\* this.resetLoginAttempts()
ResetLoginAttempts(stored) == [stored EXCEPT !.loginAttempts = 0, !.lockUntil = NoDate]

\* generateTokens: the refresh token is the signature of {userId, iat, exp},
\* iat in whole seconds and exp a fixed distance from it, so that it is
\* determined by the second it is issued in
GenerateRefreshToken(t) == t

\* the run of failed attempts on an unlocked user after one more call
Streak(stored, t) ==
  IF stored.lockUntil # NoDate /\ stored.lockUntil < t THEN 1
  ELSE IF IsLocked(stored, t) THEN login.streak
  ELSE login.streak + 1

LoginRest == UNCHANGED <<workVars, mailVars, clientHasEmail, quoteVars, oproc,
                         cacheVars, aproc, accepted>>

\* POST /api/auth/login with a wrong password: findOne, the lock test,
\* verifyPassword, incLoginAttempts on the record just loaded
LoginFailed ==
  /\ user.loginAttempts < MaxLoginCalls /\ login.streak < MaxLoginCalls
  /\ IF IsLocked(user, now)
       THEN UNCHANGED <<user, login>>
       ELSE /\ user' = IncLoginAttempts(user, user, now)
            /\ login' = [login EXCEPT !.streak = Streak(user, now)]
  /\ UNCHANGED now
  /\ LoginRest

\* POST /api/auth/login with the right password: resetLoginAttempts, then
\* the save of the new refresh token
LoginSucceeded ==
  /\ ~IsLocked(user, now)
  /\ user' = [ResetLoginAttempts(user) EXCEPT
                !.refreshToken = GenerateRefreshToken(now),
                !.tokenExpiration = now + AuthMaxTime]
  /\ login' = [login EXCEPT !.streak = 0,
                            !.issued = @ \cup {GenerateRefreshToken(now)}]
  /\ UNCHANGED now
  /\ LoginRest

\* incLoginAttempts and save on the record a caller has held since it
\* loaded it: the save finds no modified path and writes nothing
HeldIncLoginAttempts ==
  /\ user.loginAttempts < MaxLoginCalls /\ login.streak < MaxLoginCalls
  /\ user' = IncLoginAttempts(login.held, user, now)
  /\ login' = [login EXCEPT !.streak = Streak(user, now)]
  /\ UNCHANGED now
  /\ LoginRest

\* User.findById by that caller
HeldReload ==
  /\ login.held # user
  /\ login' = [login EXCEPT !.held = user]
  /\ UNCHANGED <<user, now>>
  /\ LoginRest

\* one second passes
AuthTick ==
  /\ now < AuthMaxTime
  /\ now' = now + 1
  /\ UNCHANGED <<user, login>>
  /\ LoginRest

----------------------------------------------------------------------------
(* controllers/authController.js and userController.js: refresh, logout    *)
(* and changePassword as processes, one step per database round trip       *)

MaxRefreshes == 3   \* successful refreshes followed

AuthRest == UNCHANGED <<workVars, mailVars, clientHasEmail, quoteVars, oproc,
                        cacheVars, now>>

\* refresh: jwt.verify of a token this server issued, findById, the
\* comparison with the stored token, generateTokens on the loaded record
RefreshLoad(p, token) ==
  /\ aproc[p].pc = "idle"
  /\ token \in login.issued
  /\ Len(accepted) + Cardinality({o \in AuthProcs : aproc[o].pc = "rotate"}) < MaxRefreshes
  /\ aproc' = [aproc EXCEPT ![p] =
       IF user.refreshToken # token
         THEN [pc |-> "done", op |-> "refresh", token |-> token, doc |-> user,
               res |-> Err("INVALID_REFRESH_TOKEN")]
         ELSE [pc |-> "rotate", op |-> "refresh", token |-> token,
               doc |-> [user EXCEPT !.refreshToken = GenerateRefreshToken(now),
                                    !.tokenExpiration = now + AuthMaxTime],
               res |-> NoRes]]
  /\ UNCHANGED <<user, login, accepted>>
  /\ AuthRest

\* refresh: user.save() writes the two paths it modified, then the answer
RefreshSave(p) ==
  /\ aproc[p].pc = "rotate"
  /\ user' = [user EXCEPT !.refreshToken = aproc[p].doc.refreshToken,
                          !.tokenExpiration = aproc[p].doc.tokenExpiration]
  /\ accepted' = Append(accepted, aproc[p].token)
  /\ login' = [login EXCEPT !.issued = @ \cup {aproc[p].doc.refreshToken}]
  /\ aproc' = [aproc EXCEPT ![p].pc = "done", ![p].res = Ok]
  /\ AuthRest

\* logout, changePassword: findById and the assignments on the record
RevokeLoad(p, op) ==
  /\ aproc[p].pc = "idle"
  /\ user.refreshToken # NoToken
  /\ aproc' = [aproc EXCEPT ![p] =
       [pc |-> "revoke", op |-> op, token |-> NoToken,
        doc |-> [user EXCEPT !.refreshToken = NoToken, !.tokenExpiration = NoDate],
        res |-> NoRes]]
  /\ UNCHANGED <<user, login, accepted>>
  /\ AuthRest

\* logout, changePassword: user.save()
RevokeSave(p) ==
  /\ aproc[p].pc = "revoke"
  /\ user' = [user EXCEPT !.refreshToken = aproc[p].doc.refreshToken,
                          !.tokenExpiration = aproc[p].doc.tokenExpiration]
  /\ aproc' = [aproc EXCEPT ![p].pc = "done", ![p].res = Ok]
  /\ UNCHANGED <<login, accepted>>
  /\ AuthRest

AuthRespond(p) ==
  /\ aproc[p].pc = "done"
  /\ aproc' = [aproc EXCEPT ![p] = IdleAProc]
  /\ UNCHANGED <<user, login, accepted>>
  /\ AuthRest

----------------------------------------------------------------------------
(* Specifications *)

\* the order as quote approval creates it (quoteController.js) and the
\* order of scripts/seed.js
ApprovedOrder == NewOrder("pendiente_asignacion", NoMechanic, NoCost, 1)
SeedOrder     == NewOrder("en_progreso", "m1", "c1", 1)

InitRest ==
  /\ statusChanges = 0
  /\ dispatches = << >>
  /\ now = 1
  /\ loaded = order
  /\ hookRuns = 0

InitMailIdle ==
  /\ maxRetries = DefaultMaxRetries
  /\ mailOutcomes = [i \in 0..MaxRetriesCfg |-> FALSE]
  /\ mailResult = NoMailResult

InitRaceIdle == oproc = [p \in OProcs |-> IdleOProc]

InitCacheIdle ==
  /\ cache = [db |-> 0, store |-> NoEntry, redis |-> "open", logs |-> 0, acked |-> 0]
  /\ cproc = [p \in CacheProcs |-> IdleCProc]

InitAuthIdle ==
  /\ user = NewUser
  /\ login = [held |-> NewUser, streak |-> 0, issued |-> {}]
  /\ aproc = [p \in AuthProcs |-> IdleAProc]
  /\ accepted = << >>

InitExtraIdle == InitRaceIdle /\ InitCacheIdle /\ InitAuthIdle

\* no quote request is ever made: the quotes as createQuote stored them
InitQuoteIdle ==
  /\ quotes = [q \in QuoteIds |-> NewQuote(q, 100, 1)]
  /\ worders = << >>
  /\ proc = [p \in Procs |-> IdleProc]
  /\ nextToken = 1
  /\ conc = 1

Init ==
  /\ order \in {ApprovedOrder, SeedOrder}
  /\ clientHasEmail \in BOOLEAN
  /\ pc = "idle"
  /\ req = NoReq
  /\ res = NoRes
  /\ InitRest
  /\ InitMailIdle
  /\ InitQuoteIdle
  /\ InitExtraIdle

\* any document WorkOrder.create accepts; creating it is a save
InitDirect ==
  /\ order \in {NewOrder(s, m, NoCost, 1) : s \in Statuses,
                                            m \in {NoMechanic} \cup ActiveMechanics}
  /\ clientHasEmail \in BOOLEAN
  /\ pc = IF ReadyHookFires(order) THEN "hook" ELSE "idle"
  /\ req = IF ReadyHookFires(order) THEN [NoReq EXCEPT !.op = "create"] ELSE NoReq
  /\ res = NoRes
  /\ InitRest
  /\ InitMailIdle
  /\ InitQuoteIdle
  /\ InitExtraIdle

InitMail ==
  /\ order = ApprovedOrder
  /\ clientHasEmail = TRUE
  /\ pc = "idle"
  /\ req = NoReq
  /\ res = NoRes
  /\ InitRest
  /\ maxRetries \in 1..MaxRetriesCfg
  /\ mailOutcomes \in MailOutcomes
  /\ mailResult = NoMailResult
  /\ InitQuoteIdle
  /\ InitExtraIdle

InitWorkIdle ==
  /\ order = ApprovedOrder
  /\ pc = "idle"
  /\ req = NoReq
  /\ res = NoRes
  /\ InitRest
  /\ InitMailIdle

\* quote2 of scripts/seed.js: created approved, then linked to its order
SeedQuote ==
  [NewQuote(2, 200, 1) EXCEPT !.status = "approved", !.workOrderId = 1]

\* order1 of scripts/seed.js, created from quote2
SeedWorkOrder ==
  [OrderFromQuote(2, SeedQuote, 1) EXCEPT !.status = "en_progreso", !.mechanicId = "m1"]

\* the database of scripts/seed.js: quote1 pending and not yet sent, quote2
\* approved with its order; requests handled one after the other
InitQuote ==
  /\ InitWorkIdle
  /\ clientHasEmail \in BOOLEAN
  /\ quotes = [q \in QuoteIds |-> IF q = 1 THEN NewQuote(q, 100, 1) ELSE SeedQuote]
  /\ worders = << SeedWorkOrder >>
  /\ proc = [p \in Procs |-> IdleProc]
  /\ nextToken = 1
  /\ conc = 1
  /\ InitExtraIdle

\* a quote after one successful sendQuoteEmail, its tokens n and n + 1
SentQuote(q, n) ==
  [GenerateTokens(NewQuote(q, 100, 1), n) EXCEPT
     !.emailSent = TRUE, !.emailSentAt = 1, !.emailAttempts = 1]

\* both quotes sent to their clients, two requests handled at once
InitRace ==
  /\ InitWorkIdle
  /\ clientHasEmail = TRUE
  /\ quotes = [q \in QuoteIds |-> SentQuote(q, 2 * q - 1)]
  /\ worders = << >>
  /\ proc = [p \in Procs |-> IdleProc]
  /\ nextToken = 2 * Cardinality(QuoteIds) + 1
  /\ conc = Cardinality(Procs)
  /\ InitExtraIdle

\* the steps after a handler's first await, and the answer
QuoteSteps ==
  \/ \E p \in Procs : BurnToken(p)
  \/ \E p \in Procs : SaveStatus(p)
  \/ \E p \in Procs : CountOrders(p)
  \/ \E p \in Procs : InsertOrder(p)
  \/ \E p \in Procs : LinkOrder(p)
  \/ \E p \in Procs : QuoteRespond(p)

\* the tokens of the pair a quote holds
CurrentTokens(q) ==
  {quotes[q].approvalTokens[i].token : i \in DOMAIN quotes[q].approvalTokens}

\* approvals and rejections only; a client presents a token of the pair it
\* was sent
NextRace ==
  \/ \E p \in Procs, q \in QuoteIds :
       \E token \in CurrentTokens(q) : ApproveQuote(p, q, token)
  \/ \E p \in Procs, q \in QuoteIds :
       \E token \in CurrentTokens(q) : RejectQuote(p, q, token)
  \/ \E p \in Procs, q \in QuoteIds : ApproveQuoteManual(p, q)
  \/ \E p \in Procs, q \in QuoteIds : RejectQuoteManual(p, q)
  \/ QuoteSteps

\* every admin and public quote request; a client presents any token ever
\* generated or one never generated
NextQuote ==
  \/ \E p \in Procs, q \in QuoteIds, token \in 0..(nextToken - 1) : ApproveQuote(p, q, token)
  \/ \E p \in Procs, q \in QuoteIds, token \in 0..(nextToken - 1) : RejectQuote(p, q, token)
  \/ \E p \in Procs, q \in QuoteIds : ApproveQuoteManual(p, q)
  \/ \E p \in Procs, q \in QuoteIds : RejectQuoteManual(p, q)
  \/ \E p \in Procs, q \in QuoteIds, cost \in QuoteCosts : UpdateQuote(p, q, cost)
  \/ \E p \in Procs, q \in QuoteIds, outcomes \in MailOutcomes : SendQuoteEmail(p, q, outcomes)
  \/ QuoteSteps
  \/ QuoteTick

\* the order created by quote approval or the seed order; two status-change
\* requests of the admin at once
InitStatusRace ==
  /\ order \in {ApprovedOrder, SeedOrder}
  /\ clientHasEmail = TRUE
  /\ pc = "idle"
  /\ req = NoReq
  /\ res = NoRes
  /\ InitRest
  /\ InitMailIdle
  /\ InitQuoteIdle
  /\ InitRaceIdle
  /\ InitCacheIdle
  /\ InitAuthIdle

NextStatusRace ==
  \/ \E p \in OProcs, target \in Statuses : StatusLoad(p, target)
  \/ \E p \in OProcs : StatusSave(p)
  \/ \E p \in OProcs : StatusHook(p)
  \/ \E p \in OProcs : StatusRespond(p)

SpecQuote == InitQuote /\ [][NextQuote]_vars
SpecRace  == InitRace /\ [][NextRace]_vars
SpecStatusRace == InitStatusRace /\ [][NextStatusRace]_vars

\* one pending quote, nothing cached; Redis in any state connectRedis can
\* leave it in
InitCache ==
  /\ order = ApprovedOrder
  /\ clientHasEmail = TRUE
  /\ pc = "idle"
  /\ req = NoReq
  /\ res = NoRes
  /\ InitRest
  /\ InitMailIdle
  /\ InitQuoteIdle
  /\ InitRaceIdle
  /\ cache \in {[db |-> 0, store |-> NoEntry, redis |-> r, logs |-> 0, acked |-> 0] :
                 r \in RedisStates}
  /\ cproc = [p \in CacheProcs |-> IdleCProc]
  /\ InitAuthIdle

NextCache ==
  \/ \E p \in CacheProcs, fails \in BOOLEAN : GetQuote(p, fails)
  \/ \E p \in CacheProcs : GetQuoteFind(p)
  \/ \E p \in CacheProcs, fails \in BOOLEAN : GetQuoteSet(p, fails)
  \/ \E p \in CacheProcs : EditQuoteSave(p)
  \/ \E p \in CacheProcs, writeFails \in BOOLEAN : EditQuoteLog(p, writeFails)
  \/ \E p \in CacheProcs, fails1 \in BOOLEAN, fails2 \in BOOLEAN :
       EditQuoteInvalidate(p, fails1, fails2)
  \/ \E p \in CacheProcs, fails \in BOOLEAN : EditQuoteDelete(p, fails)
  \/ \E p \in CacheProcs : CacheRespond(p)
  \/ RedisFlip
  \/ CacheExpire

SpecCache == InitCache /\ [][NextCache]_vars

\* a user as User.create stored it, and the record User.create returned
InitLogin ==
  /\ order = ApprovedOrder
  /\ clientHasEmail = TRUE
  /\ pc = "idle"
  /\ req = NoReq
  /\ res = NoRes
  /\ InitRest
  /\ InitMailIdle
  /\ InitQuoteIdle
  /\ InitRaceIdle
  /\ InitCacheIdle
  /\ InitAuthIdle

NextLogin ==
  \/ LoginFailed
  \/ LoginSucceeded
  \/ HeldIncLoginAttempts
  \/ HeldReload
  \/ AuthTick

SpecLogin == InitLogin /\ [][NextLogin]_vars

NextAuth ==
  \/ LoginSucceeded
  \/ \E p \in AuthProcs, token \in 1..AuthMaxTime : RefreshLoad(p, token)
  \/ \E p \in AuthProcs : RefreshSave(p)
  \/ \E p \in AuthProcs, op \in {"logout", "changePassword"} : RevokeLoad(p, op)
  \/ \E p \in AuthProcs : RevokeSave(p)
  \/ \E p \in AuthProcs : AuthRespond(p)
  \/ AuthTick

\* a registered user who has not logged in yet
SpecAuth == InitLogin /\ [][NextAuth]_vars

Next ==
  \/ \E id \in OrderIds, actor \in Actors, cost \in Costs : UpdateOrder(id, actor, cost)
  \/ \E id \in OrderIds, actor \in Actors, target \in Statuses :
       UpdateOrderStatus(id, actor, target)
  \/ \E id \in OrderIds, actor \in Actors, mechanicId \in MechanicIds :
       AssignMechanic(id, actor, mechanicId)
  \/ \E id \in OrderIds, actor \in Actors : DeleteOrder(id, actor)
  \/ PostSaveHook
  \/ Respond
  \/ Tick

\* status-change requests alone, for directly created documents
NextDirect ==
  \/ \E id \in OrderIds, actor \in Actors, target \in Statuses :
       UpdateOrderStatus(id, actor, target)
  \/ PostSaveHook
  \/ Respond

NextMail == MailSend

Spec       == Init /\ [][Next]_vars
SpecDirect == InitDirect /\ [][NextDirect]_vars
SpecMail   == InitMail /\ [][NextMail]_vars

TypeOK ==
  /\ order.status \in Statuses
  /\ pc \in {"idle", "hook", "done"}
  /\ now \in 1..(IF MaxTime > QuoteMaxTime THEN MaxTime ELSE QuoteMaxTime)
  /\ hookRuns \in 0..MaxHookRuns
  /\ Len(order.statusHistory) <= MaxHistory
  /\ \A q \in QuoteIds : quotes[q].status \in QuoteStatuses
  /\ \A p \in Procs :
       proc[p].pc \in {"idle", "burn", "status", "count", "insert", "link", "done"}
  /\ nextToken \in 1..(2 * MaxSends + 1)
  /\ conc \in Procs

----------------------------------------------------------------------------
(* Properties *)

\* the transition table as the specification lists it
TransitionTable ==
  { <<"pendiente_asignacion", "asignada">>,
    <<"asignada", "en_progreso">>, <<"asignada", "pendiente_asignacion">>,
    <<"en_progreso", "listo">>, <<"en_progreso", "asignada">>,
    <<"listo", "entregado">>, <<"listo", "en_progreso">> }

StatusRequest == pc # "idle" /\ req.op = "status"

ReadyEntries == {i \in DOMAIN order.notifications : order.notifications[i].type = "listo"}

\* C1: a status-change request whose (current, target) pair is not in the
\* transition table is answered with an error and leaves status,
\* statusHistory and actualDelivery as they were.
C1_InvalidPairRejected ==
  (StatusRequest /\ <<loaded.status, req.target>> \notin TransitionTable)
    => /\ pc = "done" /\ ~res.ok
       /\ order.status = loaded.status
       /\ order.statusHistory = loaded.statusHistory
       /\ order.actualDelivery = loaded.actualDelivery

\* the scenario of the specification: asignada -> listo is rejected
C1_Witness ==
  /\ pc = "done" /\ req.op = "status" /\ req.actor = Admin
  /\ loaded.status = "asignada" /\ req.target = "listo"
  /\ res.code = "INVALID_STATUS_TRANSITION"
  /\ order = loaded

\* C2: a status change to en_progreso on an order without a mechanic is
\* rejected from every current status and leaves the order unchanged.
C2_NoMechanicNoProgress ==
  (StatusRequest /\ req.target = "en_progreso" /\ loaded.mechanicId = NoMechanic)
    => (pc = "done" /\ ~res.ok /\ order = loaded)

\* asignada -> en_progreso is in the table, but the order has no mechanic
C2_Witness ==
  /\ pc = "done" /\ req.op = "status" /\ req.actor = Admin
  /\ req.target = "en_progreso"
  /\ loaded.status \in {"asignada", "listo"} /\ loaded.mechanicId = NoMechanic
  /\ res.code = "INVALID_STATUS_TRANSITION"

\* C3: entregado is terminal: no step of any request changes the status of
\* an order that is entregado.
C3_EntregadoTerminal ==
  [][order.status = "entregado" => order'.status = "entregado"]_vars

\* a mechanic was assigned to a delivered order and it stayed delivered
C3_Witness ==
  /\ pc = "done" /\ req.op = "assign" /\ res.ok
  /\ loaded.status = "entregado" /\ order.status = "entregado"
  /\ order.mechanicId # loaded.mechanicId

\* C4: an order that is entregado has actualDelivery set, not earlier than
\* createdAt, stamped by the transition listo -> entregado that is the last
\* entry of its history.
C4_DeliveredIsStamped ==
  order.status = "entregado"
    => /\ order.actualDelivery # NoDate
       /\ order.actualDelivery >= order.createdAt
       /\ order.statusHistory # << >>
       /\ Last(order.statusHistory).previousStatus = "listo"
       /\ Last(order.statusHistory).newStatus = "entregado"
       /\ Last(order.statusHistory).changedAt = order.actualDelivery

C4_Witness ==
  /\ order.status = "entregado"
  /\ order.actualDelivery > order.createdAt
  /\ pc = "done" /\ req.op = "status" /\ req.target = "entregado" /\ res.ok

\* C5: the history has one entry per persisted status change, and its last
\* entry names the current status.
C5_HistoryMatchesStatus ==
  /\ Len(order.statusHistory) = statusChanges
  /\ order.statusHistory # << >> => Last(order.statusHistory).newStatus = order.status

\* status changes by both routes, then a save that changes no status
C5_Witness ==
  /\ statusChanges >= 2
  /\ order.statusHistory[1].newStatus = "asignada"
  /\ order.statusHistory[1].previousStatus = "pendiente_asignacion"
  /\ pc = "done" /\ req.op = "update" /\ res.ok

\* C6: the notification log of an order holds at most one entry of type
\* listo, and exactly one once a request that moved it into listo has
\* finished its save.
C6_OneReadyEntry ==
  /\ Cardinality(ReadyEntries) <= 1
  /\ (pc = "done" /\ req.op = "status" /\ req.target = "listo" /\ res.ok
        /\ ~loaded.readyEmailSent)
       => Cardinality(ReadyEntries) = 1

\* C7: readyEmailSent and an entry enviado only follow a dispatch that
\* reported success; a dispatch that failed or threw leaves readyEmailSent
\* false and is recorded as fallido.
C7_SentOnlyOnSuccess ==
  /\ Len(dispatches) = Len(order.notifications)
  /\ \A i \in DOMAIN order.notifications :
       (order.notifications[i].status = "enviado") <=> (dispatches[i] = "sent")
  /\ order.readyEmailSent => \E i \in DOMAIN dispatches : dispatches[i] = "sent"

\* C8: once the ready notification of a status change into listo has failed
\* and the failure is recorded, the transition is persisted with its history
\* entry and the request is at its successful response.
C8_FailureNotSurfaced ==
  (req.op = "status" /\ req.target = "listo" /\ hookRuns >= 1
     /\ Last(dispatches) \in {"failed", "threw"})
    => /\ pc = "done"
       /\ res.ok
       /\ order.status = "listo"
       /\ Last(order.statusHistory).newStatus = "listo"

\* C9: the hook body runs at most once for one save: after a run the hook
\* is not pending again.
C9_HookRunsOnce ==
  pc = "hook" => hookRuns = 0

\* C10: sendWithRetry makes at most maxRetries attempts, stops at the first
\* attempt that succeeds and reports failure exactly when all maxRetries
\* attempts failed.
C10_BoundedRetry ==
  mailResult # NoMailResult
    => /\ mailResult.attempts \in 1..maxRetries
       /\ mailResult.success <=> (\E i \in 0..(maxRetries - 1) : mailOutcomes[i])
       /\ \A i \in 0..(mailResult.attempts - 2) : ~mailOutcomes[i]
       /\ mailResult.success => mailOutcomes[mailResult.attempts - 1]
       /\ ~mailResult.success => mailResult.attempts = maxRetries

\* the second attempt succeeds and the third is not made
C10_Witness ==
  /\ maxRetries = DefaultMaxRetries
  /\ ~mailOutcomes[0] /\ mailOutcomes[1] /\ ~mailOutcomes[2]
  /\ mailResult = [success |-> TRUE, attempts |-> 2]

----------------------------------------------------------------------------
(* Quote approval tokens *)

\* a send-email request that got past its checks and attempted the dispatch
Dispatched(r) ==
  r.pc = "done" /\ r.op = "sendQuoteEmail" /\ r.res.code \in {"OK", "EMAIL_SEND_FAILED"}

\* C11: after a send-email request has dispatched a pending quote, the quote
\* holds exactly two tokens, one tagged approve and one tagged reject, both
\* unused, and every token generated before that pair is reported by
\* validateToken as an invalid token.
C11_SendReplacesPair ==
  \A p \in Procs :
    Dispatched(proc[p]) =>
      LET doc  == quotes[proc[p].q]
          toks == doc.approvalTokens
      IN  /\ Len(toks) = 2
          /\ {toks[i].type : i \in DOMAIN toks} = {"approve", "reject"}
          /\ \A i \in DOMAIN toks : ~toks[i].used
          /\ toks[1].token # toks[2].token
          /\ \A t \in 1..(nextToken - 1) :
               t \notin CurrentTokens(proc[p].q)
                 => ValidateToken(doc, t, now) =
                      [valid |-> FALSE, error |-> TokenInvalid, type |-> "none"]

\* a quote sent for the second time: its first pair is gone
C11_Witness ==
  \E p \in Procs :
    /\ Dispatched(proc[p])
    /\ proc[p].doc.approvalTokens # << >>
    /\ CurrentTokens(proc[p].q) = {nextToken - 2, nextToken - 1}
    /\ nextToken >= 5

\* a public request just after its validateToken call: either answered 400
\* or about to burn the token
Validated(r) ==
  /\ r.op \in {"approveQuote", "rejectQuote"}
  /\ r.pc = "burn" \/ (r.pc = "done" /\ r.res.code \in TokenErrors)

\* C12: validateToken changes neither the document it is called on nor the
\* stored quote, and returns the first failing condition in this order:
\* token not among the quote's current tokens (invalid token), token marked
\* used (token used), validity deadline passed (expired), quote not pending
\* (already processed); otherwise it is valid with the token's tag.
C12_ValidateTokenOrder ==
  \A p \in Procs :
    Validated(proc[p]) =>
      LET r     == proc[p]
          doc   == r.doc
          known == {i \in DOMAIN doc.approvalTokens : doc.approvalTokens[i].token = r.token}
      IN  /\ quotes[r.q] = doc
          /\ IF known = {}
               THEN r.validation.valid = FALSE /\ r.validation.error = TokenInvalid
             ELSE IF \E i \in known : doc.approvalTokens[i].used
               THEN r.validation.valid = FALSE /\ r.validation.error = TokenUsed
             ELSE IF now > doc.validUntil
               THEN r.validation.valid = FALSE /\ r.validation.error = TokenExpired
             ELSE IF doc.status \in {"approved", "rejected"}
               THEN r.validation.valid = FALSE /\ r.validation.error = AlreadyProcessed
             ELSE /\ r.validation.valid = TRUE
                  /\ \E i \in known : doc.approvalTokens[i].type = r.validation.type

\* a used token of an expired, processed quote is reported as used
C12_Witness ==
  \E p \in Procs :
    /\ Validated(proc[p])
    /\ proc[p].validation.error = TokenUsed
    /\ proc[p].doc.validUntil < now
    /\ proc[p].doc.status # "pending"

\* a public request that redeemed its token and was answered with success
Redeemed(r) ==
  r.op \in {"approveQuote", "rejectQuote"} /\ r.pc = "done" /\ r.res.ok

\* C13: after a successful redemption every token of the quote is marked
\* used, the presented one with the redemption time, IP and user-agent; and
\* whenever a quote has a used token, none of its tokens validates.
C13_RedeemBurnsBoth ==
  /\ \A p \in Procs :
       Redeemed(proc[p]) =>
         LET toks == quotes[proc[p].q].approvalTokens
         IN  \A i \in DOMAIN toks :
               /\ toks[i].used
               /\ toks[i].usedAt = now
               /\ toks[i].token = proc[p].token
                    => toks[i].ipAddress = ClientIp /\ toks[i].userAgent = ClientAgent
  /\ \A q \in QuoteIds :
       (\E i \in DOMAIN quotes[q].approvalTokens : quotes[q].approvalTokens[i].used)
         => \A t \in CurrentTokens(q) : ~ValidateToken(quotes[q], t, now).valid

\* the approve token was redeemed and the reject token, never presented, is used
C13_Witness ==
  \E p \in Procs :
    /\ Redeemed(proc[p])
    /\ LET toks == quotes[proc[p].q].approvalTokens
       IN  /\ Len(toks) = 2
           /\ toks[1].token = proc[p].token
           /\ toks[2].used /\ toks[2].ipAddress = "none"

\* the token cannot be redeemed on this document at time t
BadToken(doc, token, t) ==
  \/ \A i \in DOMAIN doc.approvalTokens : doc.approvalTokens[i].token # token
  \/ \E i \in DOMAIN doc.approvalTokens :
       doc.approvalTokens[i].token = token /\ doc.approvalTokens[i].used
  \/ t > doc.validUntil
  \/ doc.status # "pending"

\* C14: a public approve or reject request that presents an unknown token, a
\* used token, a token of an expired quote or a token of a quote that is not
\* pending is answered with a token error and leaves the quotes and the work
\* orders as they were; a used token is answered as token used.
C14_BadTokenNoChange ==
  [][\A p \in Procs :
       (/\ proc[p].pc = "idle"
        /\ proc'[p].op \in {"approveQuote", "rejectQuote"}
        /\ BadToken(quotes[proc'[p].q], proc'[p].token, now))
         => /\ proc'[p].pc = "done"
            /\ ~proc'[p].res.ok
            /\ proc'[p].res.code \in TokenErrors
            /\ (\E i \in DOMAIN quotes[proc'[p].q].approvalTokens :
                  /\ quotes[proc'[p].q].approvalTokens[i].token = proc'[p].token
                  /\ quotes[proc'[p].q].approvalTokens[i].used)
                 => proc'[p].res.code = TokenUsed
            /\ quotes' = quotes
            /\ worders' = worders]_vars

\* the reject token, already redeemed, presented to /reject again
C14_Witness ==
  \E p \in Procs :
    LET r == proc[p]
    IN  /\ r.op = "rejectQuote" /\ r.pc = "done" /\ r.res = Err(TokenUsed)
        /\ quotes[r.q].status = "rejected"
        /\ \E i \in DOMAIN quotes[r.q].approvalTokens :
             /\ quotes[r.q].approvalTokens[i].token = r.token
             /\ quotes[r.q].approvalTokens[i].type = "reject"
             /\ quotes[r.q].approvalTokens[i].ipAddress = ClientIp

----------------------------------------------------------------------------
(* Quote approval and rejection *)

\* C15: a quote's status changes at most once, from pending to approved or
\* from pending to rejected: a stored status other than pending is never
\* replaced by a different one, under any interleaving of requests.
C15_StatusMonotone ==
  [][\A q \in QuoteIds :
       quotes[q].status # "pending" => quotes'[q].status = quotes[q].status]_vars

\* an approval request, by token or manual, answered with success
Approved(r) ==
  r.op \in {"approveQuote", "approveQuoteManual"} /\ r.pc = "done" /\ r.res.ok

\* the work orders that reference quote q
OrdersOf(q) == {i \in DOMAIN worders : worders[i].quoteId = q}

\* C16: after a successful approval, by token or manual, exactly one work
\* order references the quote; it is in pendiente_asignacion, has no
\* mechanic, carries the quote's vehicle and the estimated cost the quote had
\* when it was approved, and the quote's workOrderId references it.
C16_ApprovalCreatesOrder ==
  \A p \in Procs :
    Approved(proc[p]) =>
      LET r == proc[p]
      IN  /\ Cardinality(OrdersOf(r.q)) = 1
          /\ \A i \in OrdersOf(r.q) :
               /\ worders[i].status = "pendiente_asignacion"
               /\ worders[i].mechanicId = NoMechanic
               /\ worders[i].vehicleSnapshot = quotes[r.q].vehicle
               /\ worders[i].estimatedCost = r.doc.estimatedCost
               /\ worders[i].estimatedCost = quotes[r.q].estimatedCost
               /\ quotes[r.q].workOrderId = i

\* quote 1, its cost edited to 200, approved with a token: the second order
\* of the collection is its order
C16_Witness ==
  \E p \in Procs :
    /\ Approved(proc[p])
    /\ proc[p].op = "approveQuote"
    /\ proc[p].q = 1
    /\ worders[2].estimatedCost = 200
    /\ quotes[1].workOrderId = 2

\* C17: the tag of the redeemed token decides the outcome at either public
\* endpoint: a reject token leaves the quote rejected with no work order, an
\* approve token leaves it approved; and a rejected quote has no work order.
C17_TagDecides ==
  /\ \A p \in Procs :
       Redeemed(proc[p]) =>
         LET r == proc[p]
         IN  /\ r.validation.type = "reject"
                  => quotes[r.q].status = "rejected" /\ OrdersOf(r.q) = {}
             /\ r.validation.type = "approve"
                  => quotes[r.q].status = "approved"
  /\ \A q \in QuoteIds : quotes[q].status = "rejected" => OrdersOf(q) = {}

\* an approval request that has not been answered yet
ApprovalInProgress ==
  \E p \in Procs :
    /\ proc[p].op \in {"approveQuote", "approveQuoteManual"}
    /\ proc[p].pc \notin {"idle", "done"}

\* C18: approval is all-or-nothing: a request whose work-order creation
\* failed does not leave its quote approved without an order, and whenever
\* no approval request is in progress a quote is approved exactly when one
\* work order references it and the quote's workOrderId references that order.
C18_AllOrNothing ==
  /\ \A p \in Procs :
       (/\ proc[p].op \in {"approveQuote", "approveQuoteManual"}
        /\ proc[p].pc = "done"
        /\ proc[p].res.code = "DUPLICATE_ERROR")
         => ~(quotes[proc[p].q].status = "approved" /\ OrdersOf(proc[p].q) = {})
  /\ ~ApprovalInProgress =>
       \A q \in QuoteIds :
         quotes[q].status = "approved"
           <=> /\ Cardinality(OrdersOf(q)) = 1
               /\ quotes[q].workOrderId \in OrdersOf(q)

\* C19: token burn and status change are one unit: no stored quote has a
\* token marked used while its status is still pending, and no stored quote
\* moved out of pending by a redemption has a token still unused.
C19_BurnWithStatus ==
  \A q \in QuoteIds :
    LET toks == quotes[q].approvalTokens
    IN  /\ (\E i \in DOMAIN toks : toks[i].used) => quotes[q].status # "pending"
        /\ \A p \in Procs :
             (Redeemed(proc[p]) /\ proc[p].q = q)
               => \A i \in DOMAIN toks : toks[i].used

\* C20: of two redemption requests for the same quote that overlap, at most
\* one is answered with success; the other is answered with a token error.
C20_OneRedemptionWins ==
  \A p1, p2 \in Procs :
    (/\ p1 # p2
     /\ proc[p1].q = proc[p2].q
     /\ proc[p1].op \in {"approveQuote", "rejectQuote"}
     /\ proc[p2].op \in {"approveQuote", "rejectQuote"}
     /\ proc[p1].pc = "done"
     /\ proc[p2].pc = "done"
     /\ proc[p1].res.ok)
      => ~proc[p2].res.ok /\ proc[p2].res.code \in TokenErrors

----------------------------------------------------------------------------
(* Work-order deletion and mechanics *)

\* C24: a delete request soft-deletes the order only when it is in
\* pendiente_asignacion and not yet deleted; any other delete request is
\* rejected and leaves isDeleted, deletedAt and deletedBy (and the rest of
\* the order) as they were.  A delete only sets the three deletion fields:
\* the record stays.
C24_DeleteOnlyPending ==
  [][(pc = "idle" /\ req'.op = "delete") =>
       IF req'.actor = Admin /\ order.status = "pendiente_asignacion" /\ ~order.isDeleted
         THEN /\ res'.ok
              /\ order' = [order EXCEPT !.isDeleted = TRUE, !.deletedAt = now,
                                        !.deletedBy = req'.actor]
         ELSE /\ pc' = "done"
              /\ ~res'.ok
              /\ order' = order]_vars

\* a second delete of a deleted order, refused, the first deletion's stamp kept
C24_Witness ==
  /\ req.op = "delete"
  /\ pc = "done"
  /\ res = Err("ORDER_ALREADY_DELETED")
  /\ order.isDeleted
  /\ order.deletedAt < now
  /\ order.deletedBy = Admin

\* C28: a work order in en_progreso, listo or entregado has a mechanic
\* assigned.
C28_ProgressHasMechanic ==
  order.status \in {"en_progreso", "listo", "entregado"} => order.mechanicId # NoMechanic

\* an order created by quote approval, delivered after a change of mechanic
C28_Witness ==
  /\ order.status = "entregado"
  /\ order.mechanicId = "m2"
  /\ order.statusHistory[1].previousStatus = "pendiente_asignacion"

\* C29: a soft-deleted work order is in pendiente_asignacion.
C29_DeletedStaysPending ==
  order.isDeleted => order.status = "pendiente_asignacion"

----------------------------------------------------------------------------
(* Quotes: staff actions and the one-order rule *)

StaffOps == {"approveQuoteManual", "rejectQuoteManual", "updateQuote", "sendQuoteEmail"}

\* C23: a manual approve, manual reject, edit or send-email request on a
\* quote that is approved or rejected is answered with an error and leaves
\* every stored quote (status, content, tokens, workOrderId) and the work
\* orders unchanged.
C23_ProcessedIsFrozen ==
  [][\A p \in Procs :
       (/\ proc[p].pc = "idle"
        /\ proc'[p].op \in StaffOps
        /\ quotes[proc'[p].q].status \in {"approved", "rejected"})
         => /\ proc'[p].pc = "done"
            /\ ~proc'[p].res.ok
            /\ proc'[p].res.code \in {"QUOTE_ALREADY_PROCESSED", "QUOTE_CANNOT_EDIT"}
            /\ quotes' = quotes
            /\ worders' = worders
            /\ nextToken' = nextToken]_vars

\* an edit of a quote the client rejected with the token, refused
C23_Witness ==
  \E p \in Procs :
    /\ proc[p].op = "updateQuote"
    /\ proc[p].pc = "done"
    /\ proc[p].res = Err("QUOTE_CANNOT_EDIT")
    /\ quotes[proc[p].q].status = "rejected"
    /\ quotes[proc[p].q].estimatedCost = 100

\* C22: at most one work order references any given quote, also while two
\* approvals of the same quote overlap.
C22_OneOrderPerQuote ==
  \A q \in QuoteIds : Cardinality(OrdersOf(q)) <= 1

\* two approvals of quote 1 overlapped, one manual and one by token; the
\* second insert, with an order number of its own, was refused
C22_Witness ==
  \E p1, p2 \in Procs :
    /\ proc[p1].q = 1 /\ proc[p2].q = 1
    /\ proc[p1].op = "approveQuoteManual"
    /\ proc[p2].op = "approveQuote"
    /\ proc[p2].pc = "done" /\ proc[p2].res = Err("DUPLICATE_ERROR")
    /\ OrdersOf(1) # {}
    /\ \A i \in OrdersOf(1) : worders[i].orderNumber # proc[p2].number

----------------------------------------------------------------------------
(* Overlapping status changes *)

\* C21: every persisted status change old -> new is a table transition from
\* the status that was persisted immediately before it, under every
\* interleaving of two status-change requests.
C21_PersistedChangeInTable ==
  [][order'.status # order.status => order'.status \in Transitions(order.status)]_vars

----------------------------------------------------------------------------
(* Audit log and cache as best-effort side channels *)

\* C25: a failing audit-log write and an unavailable or failing cache never
\* fail the request: no handler ends in an error, and an edit that has
\* been saved stays persisted and is answered as successful.
C25_SideChannelsNeverFail ==
  \A p \in CacheProcs :
    /\ cproc[p].pc = "done" => cproc[p].res.ok
    /\ cproc[p].op = "edit" => cache.db >= cproc[p].data

C25_Witness ==
  \E p \in CacheProcs :
    /\ cproc[p].op = "edit" /\ cproc[p].pc = "done"
    /\ cproc[p].logFailed /\ cproc[p].cacheFailed
    /\ cproc[p].res.ok /\ cache.db >= cproc[p].data

\* C27: a getQuote that starts after an edit has been answered returns the
\* quote as that edit, or a later one, stored it.
C27_ReadSeesAnsweredEdit ==
  \A p \in CacheProcs :
    (cproc[p].op = "get" /\ cproc[p].pc = "done" /\ cproc[p].res.ok)
      => cproc[p].data >= cproc[p].since

----------------------------------------------------------------------------
(* Login lockout and refresh tokens *)

\* C26: the fifth consecutive failed attempt recorded for a user that is
\* not locked leaves the stored user locked, with lockUntil LockTicks
\* ahead, whichever record incLoginAttempts was called on.
C26_FifthFailureLocks ==
  [][(login.streak = MaxLoginAttempts - 1 /\ login'.streak = MaxLoginAttempts)
       => (IsLocked(user', now) /\ user'.lockUntil = now + LockTicks)]_vars

\* C30: a refresh token is accepted at most once: no token is presented by
\* two successful refreshes.
C30_RefreshTokenOnce ==
  \A i, j \in 1..Len(accepted) : accepted[i] = accepted[j] => i = j

====
